---- MODULE Spec2Model ----
(***************************************************************************)
(* Model of poc_char.c: the per-CPU xorshift128+ generator of the          *)
(* "urandom-fast" misc device (spl_rand_next, spl_rand_jump,               *)
(* random_get_pseudo_bytes, poc_read, spl_random_init, init_module,        *)
(* cleanup_module).                                                        *)
(*                                                                         *)
(* A uint64_t is modelled as the set of its set bit positions (a subset of *)
(* 0..63, bit 0 the least significant), so that xor, the shifts and the    *)
(* wrap-around of + and - are exactly those of 64-bit unsigned arithmetic.  *)
(***************************************************************************)
EXTENDS Integers, Sequences, FiniteSets, TLC

\* ------------------------------------------------------------------------
\* Bounds of the model
\* ------------------------------------------------------------------------
\* for_each_possible_cpu: the number of possible CPUs
NCPU == 2
\* the number of tasks calling into the module concurrently
NTASK == 2
\* the number of calls of poc_read and random_get_pseudo_bytes in one run
MaxCalls == 2
\* two calls run at the same time only when neither asks for more bytes than this
MaxOverlap == 1

CPU == 0 .. (NCPU - 1)
Task == 1 .. NTASK

\* ------------------------------------------------------------------------
\* uint64_t arithmetic
\* ------------------------------------------------------------------------
WordBits == 64
Bit == 0 .. (WordBits - 1)
Zero64 == {}
Ones64 == Bit

\* a ^ b
XOR(a, b) == {i \in Bit : (i \in a) # (i \in b)}
\* a << n, the bits shifted out of the word are lost
SHL(a, n) == {i \in Bit : (i - n) \in a}
\* a >> n
SHR(a, n) == {i \in Bit : (i + n) \in a}

\* the value of the byte of significance k (0 = least significant) of w
ByteVal(w, k) ==
    (IF 8 * k     \in w THEN 1   ELSE 0) + (IF 8 * k + 1 \in w THEN 2   ELSE 0) +
    (IF 8 * k + 2 \in w THEN 4   ELSE 0) + (IF 8 * k + 3 \in w THEN 8   ELSE 0) +
    (IF 8 * k + 4 \in w THEN 16  ELSE 0) + (IF 8 * k + 5 \in w THEN 32  ELSE 0) +
    (IF 8 * k + 6 \in w THEN 64  ELSE 0) + (IF 8 * k + 7 \in w THEN 128 ELSE 0)

\* the word whose bytes, least significant first, are d[1] .. d[8]
FromBytes(d) == {i \in Bit : (d[(i \div 8) + 1] \div (2 ^ (i % 8))) % 2 = 1}

\* the bytes k .. 7 of a + b, least significant first, given the carry into byte k
RECURSIVE AddBytes(_, _, _, _)
AddBytes(a, b, k, carry) ==
    IF k = 8 THEN <<>>
    ELSE LET n == ByteVal(a, k) + ByteVal(b, k) + carry
         IN  <<n % 256>> \o AddBytes(a, b, k + 1, n \div 256)
\* a + b modulo 2^64
ADD(a, b) == FromBytes(AddBytes(a, b, 0, 0))

\* the bytes k .. 7 of a - b, least significant first, given the borrow into byte k
RECURSIVE SubBytes(_, _, _, _)
SubBytes(a, b, k, borrow) ==
    IF k = 8 THEN <<>>
    ELSE LET n == ByteVal(a, k) - ByteVal(b, k) - borrow
         IN  <<IF n < 0 THEN n + 256 ELSE n>> \o
             SubBytes(a, b, k + 1, IF n < 0 THEN 1 ELSE 0)
\* a - b modulo 2^64
SUB(a, b) == FromBytes(SubBytes(a, b, 0, 0))

\* the uint64_t written as 16 hexadecimal digits, most significant first
HexWord(d) == {i \in Bit : (d[16 - (i \div 4)] \div (2 ^ (i % 4))) % 2 = 1}

\* the byte at memory offset j (0..7) of a uint64_t object: the build's byte
\* order decides which byte of the value lives there
MemByte(w, j, le) == ByteVal(w, IF le THEN j ELSE 7 - j)

\* the uint64_t whose object representation holds the bytes m[0..7]
MemWord(m, le) ==
    {i \in Bit : (m[IF le THEN i \div 8 ELSE 7 - (i \div 8)] \div (2 ^ (i % 8))) % 2 = 1}

\* a uint64_t[2], indexed from 0 as in the source
Pair(a, b) == (0 :> a) @@ (1 :> b)

\* ------------------------------------------------------------------------
\* spl_rand_next, spl_rand_jump
\* ------------------------------------------------------------------------
\* the state s[0], s[1] after spl_rand_next(s)
spl_rand_next_s(s) ==
    LET s1  == s[0]
        s0  == s[1]
        s1a == XOR(s1, SHL(s1, 23))
    IN  Pair(s0, XOR(XOR(XOR(s1a, s0), SHR(s1a, 18)), SHR(s0, 5)))

\* the value spl_rand_next(s) returns: s[1] + s0 of the new state
spl_rand_next(s) == LET n == spl_rand_next_s(s) IN ADD(n[1], n[0])

JUMP == Pair(HexWord(<<8, 10, 5, 12, 13, 7, 8, 9, 6, 3, 5, 13, 2, 13, 15, 15>>),
             HexWord(<<1, 2, 1, 15, 13, 2, 1, 5, 5, 12, 4, 7, 2, 15, 9, 6>>))

\* JumpBody with the two statements of the loop body exchanged: the state is
\* advanced before it is accumulated
JumpBodyAdvanceFirst(l, i, b) ==
    [s  |-> spl_rand_next_s(l.s),
     s0 |-> IF b \in JUMP[i] THEN XOR(l.s0, spl_rand_next_s(l.s)[0]) ELSE l.s0,
     s1 |-> IF b \in JUMP[i] THEN XOR(l.s1, spl_rand_next_s(l.s)[1]) ELSE l.s1]

\* one iteration (i, b) of the two nested loops of spl_rand_jump, on its
\* locals: the state s being advanced and the accumulators s0, s1
JumpBody(l, i, b) ==
    [s  |-> spl_rand_next_s(l.s),
     s0 |-> IF b \in JUMP[i] THEN XOR(l.s0, l.s[0]) ELSE l.s0,
     s1 |-> IF b \in JUMP[i] THEN XOR(l.s1, l.s[1]) ELSE l.s1]

\* the locals after the iterations lo .. hi - 1 of the loops, run in order
\* from the locals l, iteration n being i = n \div 64, b = n % 64. The range
\* is halved, and the locals m reached half way are bound as the element of
\* a one-element set, only so that TLC evaluates each iteration once.
RECURSIVE JumpLoop(_, _, _)
JumpLoop(l, lo, hi) ==
    IF hi = lo + 1 THEN JumpBody(l, lo \div 64, lo % 64)
    ELSE LET mid == (lo + hi) \div 2
         IN  CHOOSE e \in {JumpLoop(m, mid, hi) : m \in {JumpLoop(l, lo, mid)}} : TRUE

\* s[0], s[1] after spl_rand_jump(s)
spl_rand_jump(s) ==
    LET e == JumpLoop([s |-> s, s0 |-> Zero64, s1 |-> Zero64], 0, 2 * 64)
    IN  Pair(e.s0, e.s1)

\* n successive calls of spl_rand_next on s
RECURSIVE NextN(_, _)
NextN(s, n) == IF n = 0 THEN s ELSE spl_rand_next_s(NextN(s, n - 1))

\* ------------------------------------------------------------------------
\* Small integers as size_t, P2ROUNDUP, MIN
\* ------------------------------------------------------------------------
SizeBits == 0 .. 30
\* the size_t holding the small number n
ToWord(n) == {i \in SizeBits : (n \div (2 ^ i)) % 2 = 1}
\* the number a size_t below 2^31 holds
ToInt(w) ==
    ByteVal(w, 0) + 256 * ByteVal(w, 1) + 65536 * ByteVal(w, 2) + 16777216 * ByteVal(w, 3)
\* a | b
OR(a, b) == {i \in Bit : i \in a \/ i \in b}

MIN(a, b) == IF a < b THEN a ELSE b

\* ((((x) - 1) | ((align) - 1)) + 1) in size_t arithmetic: x = 0 wraps to 0
P2ROUNDUP(x, align) ==
    ToInt(ADD(OR(SUB(ToWord(x), ToWord(1)), SUB(ToWord(align), ToWord(1))), ToWord(1)))

SizeofU64 == 8
EFAULT == 14
ENOMEM == 12
EBUSY == 16
\* the errors misc_register may return
RegisterErrors == {-EBUSY, -ENOMEM}
NULL == "NULL"
\* a byte whose value the program never set (fresh vmalloc memory)
Indet == -1
\* a byte read from beyond the end of the object it was read from
OutOfBounds == -2

\* ------------------------------------------------------------------------
\* State
\* ------------------------------------------------------------------------
VARIABLES
    hostLE,             \* the build's byte order: TRUE little-endian, FALSE big-endian
    ipc,                \* position of init_module / cleanup_module
    areaState,          \* the per-cpu area behind spl_pseudo_entropy: "none", "live", "freed"
    areaFrees,          \* number of free_percpu calls on the area
    percpu,             \* the per-cpu area: for each CPU its uint64_t[2]
    s,                  \* spl_random_init's local s[2]
    icpu,               \* spl_random_init's loop variable
    entropy,            \* what get_random_bytes returned
    jiffies,            \* the jiffies reading of spl_random_init
    rootSeed,           \* s when the seeding loop starts
    seed,               \* for each CPU what the seeding loop stored for it
    diag,               \* the printk of the fallback was emitted
    initRet,            \* spl_random_init's return value, once it has returned
    error,              \* init_module's return value, once it has returned
    registered,         \* the misc device (the read endpoint) is registered
    pinned,             \* for each CPU the task running on it with preemption disabled, or 0
    nTrans,             \* for each CPU the number of spl_rand_next calls made on its state
    ncalls,             \* the number of calls made so far
    heap,               \* for each scratch buffer vmalloc has returned, in order, the number
                        \* of vfree calls made on it
    tk                  \* for each task its position in poc_read / random_get_pseudo_bytes and locals

modvars == <<ipc, areaState, areaFrees, s, icpu, entropy, jiffies, rootSeed, seed, diag,
             initRet, error, registered>>
vars == <<hostLE, ipc, areaState, areaFrees, percpu, s, icpu, entropy, jiffies, rootSeed,
          seed, diag, initRet, error, registered, pinned, nTrans, ncalls, heap, tk>>

ZeroPair == Pair(Zero64, Zero64)

\* a task outside the module
IdleTask ==
    [pc |-> "idle", op |-> "none", req |-> 0, len |-> 0, ok |-> FALSE, mem |-> FALSE,
     prim |-> "none",
     cpu |-> -1, st0 |-> ZeroPair, gen |-> 0,
     i |-> 0, copied |-> 0, left |-> 0, tries |-> 0,
     buf |-> <<>>, bufst |-> "none", bufid |-> 0, allocs |-> 0, frees |-> 0,
     s |-> ZeroPair, ptr |-> 0, dest |-> <<>>, ubuf |-> <<>>, ret |-> 0]

\* what get_random_bytes may return, and what jiffies may read
EntropyValues == {ZeroPair, Pair({0}, Zero64)}
JiffiesValues == {Zero64, HexWord(<<0, 0, 0, 0, 0, 0, 0, 0, 15, 15, 15, 11, 6, 12, 2, 0>>)}

\* the behaviours of copy_to_user during one call of poc_read: everything at
\* once, one byte per call, nothing ever, or a different part at every call
Prims == {"full", "one", "zero", "any"}

\* the lengths a caller asks for: the boundary lengths around one 8-byte word
Lens == {0, 1, SizeofU64 - 1, SizeofU64, SizeofU64 + 1}

\* the task t may enter the module asking for len bytes (the tasks being
\* interchangeable, the idle task of lowest number makes the next call)
CanCall(t, len) ==
    /\ ncalls < MaxCalls
    /\ \A u \in Task : u < t => tk[u].pc # "idle"
    /\ \A u \in Task \ {t} :
          tk[u].pc = "idle" \/ (len <= MaxOverlap /\ tk[u].req <= MaxOverlap)

Init ==
    /\ hostLE \in BOOLEAN
    /\ ipc = "insmod"
    /\ areaState = "none"
    /\ areaFrees = 0
    /\ percpu = [c \in CPU |-> ZeroPair]
    /\ s = ZeroPair
    /\ icpu = 0
    /\ entropy = ZeroPair
    /\ jiffies = Zero64
    /\ rootSeed = ZeroPair
    /\ seed = [c \in CPU |-> ZeroPair]
    /\ diag = FALSE
    /\ initRet = 0
    /\ error = 0
    /\ registered = FALSE
    /\ pinned = [c \in CPU |-> 0]
    /\ nTrans = [c \in CPU |-> 0]
    /\ ncalls = 0
    /\ heap = <<>>
    /\ tk = [t \in Task |-> IdleTask]

\* ------------------------------------------------------------------------
\* spl_random_init, init_module, cleanup_module
\* ------------------------------------------------------------------------
\* the 16 bytes memcpy takes from "improbable seed" (15 characters and the NUL)
ImprobableSeed ==
    <<105, 109, 112, 114, 111, 98, 97, 98, 108, 101, 32, 115, 101, 101, 100, 0>>

\* SeedFallback with s[1] = jiffies: the complement forgotten
SeedFallbackNoComplement(e, j, le) ==
    IF e[0] = Zero64 /\ e[1] = Zero64
    THEN IF j # Zero64
         THEN Pair(j, j)
         ELSE Pair(MemWord([k \in 0 .. 7 |-> ImprobableSeed[k + 1]], le),
                   MemWord([k \in 0 .. 7 |-> ImprobableSeed[k + 9]], le))
    ELSE e

\* SeedFallback without the zero-seed test
SeedFallbackNone(e, j, le) == e

\* s after the zero-seed test of spl_random_init, j being the jiffies reading
SeedFallback(e, j, le) ==
    IF e[0] = Zero64 /\ e[1] = Zero64
    THEN IF j # Zero64
         THEN Pair(j, SUB(Ones64, j))
         ELSE Pair(MemWord([k \in 0 .. 7 |-> ImprobableSeed[k + 1]], le),
                   MemWord([k \in 0 .. 7 |-> ImprobableSeed[k + 9]], le))
    ELSE e

\* spl_random_fini without its free_percpu
spl_random_fini_skipped(a) == a

\* spl_random_fini: free_percpu(spl_pseudo_entropy), on the per-cpu area's
\* state and its count of frees
spl_random_fini(a) == [state |-> "freed", frees |-> a.frees + 1]

\* cleanup_module without its misc_deregister
misc_deregister_skipped(reg) == reg

\* misc_deregister(&poc_misc): the read endpoint is no longer registered
misc_deregister(reg) == FALSE

\* __alloc_percpu and the test of its result
InitAlloc ==
    /\ ipc = "insmod"
    /\ \E got \in BOOLEAN :
          IF got
          THEN /\ areaState' = "live"
               /\ percpu' = [c \in CPU |-> ZeroPair]
               /\ ipc' = "seed"
               /\ UNCHANGED <<initRet, error>>
          ELSE /\ initRet' = -ENOMEM
               /\ error' = -ENOMEM
               /\ ipc' = "failed"
               /\ UNCHANGED <<areaState, percpu>>
    /\ UNCHANGED <<hostLE, heap, areaFrees, s, icpu, entropy, jiffies, rootSeed, seed, diag,
                   registered, pinned, nTrans, ncalls, tk>>

\* get_random_bytes, the zero-seed fallback and its printk
InitSeed ==
    /\ ipc = "seed"
    /\ \E e \in EntropyValues, j \in JiffiesValues :
          /\ entropy' = e
          \* jiffies is read only when the seed is zero
          /\ (e[0] = Zero64 /\ e[1] = Zero64) \/ j = Zero64
          /\ jiffies' = j
          /\ s' = SeedFallback(e, j, hostLE)
          /\ rootSeed' = SeedFallback(e, j, hostLE)
          /\ diag' = (e[0] = Zero64 /\ e[1] = Zero64)
    /\ icpu' = 0
    /\ ipc' = "loop"
    /\ UNCHANGED <<seed, hostLE, heap, areaState, areaFrees, percpu, initRet, error, registered,
                   pinned, nTrans, ncalls, tk>>

\* one iteration of for_each_possible_cpu
InitLoop ==
    /\ ipc = "loop"
    /\ icpu < NCPU
    /\ LET j == spl_rand_jump(s)
       IN  /\ s' = j
           /\ percpu' = [percpu EXCEPT ![icpu] = j]
           /\ seed' = [seed EXCEPT ![icpu] = j]
    /\ icpu' = icpu + 1
    /\ UNCHANGED <<hostLE, heap, ipc, areaState, areaFrees, entropy, jiffies, rootSeed, diag,
                   initRet, error, registered, pinned, nTrans, ncalls, tk>>

\* the loop ends and spl_random_init returns 0
InitDone ==
    /\ ipc = "loop"
    /\ ~(icpu < NCPU)
    /\ initRet' = 0
    /\ ipc' = "seeded"
    /\ UNCHANGED <<hostLE, heap, areaState, areaFrees, percpu, s, icpu, entropy, jiffies,
                   rootSeed, seed, diag, error, registered, pinned, nTrans, ncalls, tk>>

\* misc_register and the rest of init_module
InitRegister ==
    /\ ipc = "seeded"
    /\ \E err \in {0} \cup RegisterErrors :
          IF err # 0
          THEN \* spl_random_fini, return (error)
               /\ areaState' = spl_random_fini([state |-> areaState, frees |-> areaFrees]).state
               /\ areaFrees' = spl_random_fini([state |-> areaState, frees |-> areaFrees]).frees
               /\ error' = err
               /\ ipc' = "failed"
               /\ UNCHANGED registered
          ELSE /\ registered' = TRUE
               /\ error' = 0
               /\ ipc' = "live"
               /\ UNCHANGED <<areaState, areaFrees>>
    /\ UNCHANGED <<hostLE, heap, percpu, s, icpu, entropy, jiffies, rootSeed, seed, diag, initRet,
                   pinned, nTrans, ncalls, tk>>

\* cleanup_module: misc_deregister; the module is unloaded only when no
\* task is inside it
CleanupDeregister ==
    /\ ipc = "live"
    /\ \A t \in Task : tk[t].pc = "idle"
    /\ registered' = misc_deregister(registered)
    /\ ipc' = "dereg"
    /\ UNCHANGED <<hostLE, heap, areaState, areaFrees, percpu, s, icpu, entropy, jiffies,
                   rootSeed, seed, diag, initRet, error, pinned, nTrans, ncalls, tk>>

\* cleanup_module: spl_random_fini
CleanupFini ==
    /\ ipc = "dereg"
    /\ areaState' = spl_random_fini([state |-> areaState, frees |-> areaFrees]).state
    /\ areaFrees' = spl_random_fini([state |-> areaState, frees |-> areaFrees]).frees
    /\ ipc' = "gone"
    /\ UNCHANGED <<hostLE, heap, percpu, s, icpu, entropy, jiffies, rootSeed, seed, diag, initRet,
                   error, registered, pinned, nTrans, ncalls, tk>>

\* ------------------------------------------------------------------------
\* poc_read
\* ------------------------------------------------------------------------
\* the bytes of memory m at the offsets idx replaced by those of f
Store(m, idx, f) == [k \in (DOMAIN m) \cup idx |-> IF k \in idx THEN f[k] ELSE m[k]]

\* vmalloc(size): NULL for a size of 0 (Linux's vmalloc refuses an empty
\* area) and when no memory is available, else size fresh bytes
vmalloc(size, avail) ==
    IF size = 0 \/ ~avail THEN NULL ELSE "area"

\* vfree that is never called: the scratch buffer is left allocated
vfree_skipped(h, id) == h

\* vfree(buf), id being the scratch buffer buf points to
vfree(h, id) == [h EXCEPT ![id] = @ + 1]

\* get_cpu_ptr that leaves preemption enabled (a plain per_cpu_ptr)
get_cpu_ptr_unpinned(pin, t, c) == pin

\* get_cpu_ptr: preemption is disabled on the CPU c the task t runs on
get_cpu_ptr(pin, t, c) == [pin EXCEPT ![c] = t]

\* put_cpu_ptr that leaves preemption disabled
put_cpu_ptr_skipped(pin, c) == pin

\* put_cpu_ptr: preemption is enabled again
put_cpu_ptr(pin, c) == [pin EXCEPT ![c] = 0]

\* a task can be running on CPU c when no other task holds c with preemption disabled
CanRunOn(t, c) == pinned[c] \in {0, t}

\* the body of poc_read's generation loop at offset i:
\* *(uint64_t *)(buf + i) = spl_rand_next(xp)
GenBody(xp, buf, i, le) ==
    LET w == spl_rand_next(xp)
    IN  [xp  |-> spl_rand_next_s(xp),
         buf |-> Store(buf, i .. (i + SizeofU64 - 1),
                       [k \in i .. (i + SizeofU64 - 1) |-> MemByte(w, k - i, le)])]

\* the arguments of the copy_to_user call poc_read's loop makes from the locals l
CopyArgs(l) == [to |-> l.copied, from |-> l.copied, n |-> l.len]

\* the numbers of bytes copy_to_user may transfer when asked for n; of the
\* partial transfers the model takes none, one byte, all but one byte, and all
Transfers(prim, n) ==
    CASE prim = "full" -> {n}
      [] prim = "one"  -> {MIN(1, n)}
      [] prim = "zero" -> {0}
      [] OTHER         -> {0, MIN(1, n), n - MIN(1, n), n}

\* the byte at offset k of the scratch buffer buf
ScratchByte(buf, k) == IF k \in DOMAIN buf THEN buf[k] ELSE OutOfBounds

\* the client buffer after copy_to_user(to, from, ...) has transferred m bytes
CopyToUser(ubuf, buf, to, from, m) ==
    Store(ubuf, to .. (to + m - 1),
          [k \in to .. (to + m - 1) |-> ScratchByte(buf, from + (k - to))])

Upd(t, r) == tk' = [tk EXCEPT ![t] = r]

\* AccessCheck without the return: the result of access_ok is ignored
AccessCheckIgnored(l, len, ok) ==
    [l EXCEPT !.pc = "vmalloc", !.op = "read", !.req = len, !.len = len, !.ok = ok,
              !.copied = 0, !.left = len]

\* the locals of poc_read(buffer, len) after its initialisers and
\* if (!access_ok(buffer, len)) return (-EFAULT), ok being what access_ok returned
AccessCheck(l, len, ok) ==
    IF ~ok
    THEN [l EXCEPT !.pc = "ret", !.op = "read", !.req = len, !.len = len, !.ret = -EFAULT]
    ELSE [l EXCEPT !.pc = "vmalloc", !.op = "read", !.req = len, !.len = len, !.ok = TRUE,
                   !.copied = 0, !.left = len]

\* a task calls read on the device
PocReadEnter(t) ==
    /\ registered
    /\ tk[t].pc = "idle"
    /\ \E len \in Lens, ok \in BOOLEAN :
          /\ CanCall(t, len)
          /\ ncalls' = ncalls + 1
          /\ Upd(t, AccessCheck(tk[t], len, ok))
    /\ UNCHANGED <<hostLE, heap, percpu, pinned, nTrans>>
    /\ UNCHANGED modvars

\* buf = vmalloc(P2ROUNDUP(len, sizeof (uint64_t))) and the test of buf
PocReadAlloc(t) ==
    /\ tk[t].pc = "vmalloc"
    /\ LET size == P2ROUNDUP(tk[t].len, SizeofU64)
       IN  \E avail \in BOOLEAN :
              IF vmalloc(size, avail) = NULL
              THEN /\ Upd(t, [tk[t] EXCEPT !.pc = "ret", !.mem = avail,
                                           !.allocs = @ + 1, !.ret = -ENOMEM])
                   /\ UNCHANGED heap
              ELSE /\ Upd(t, [tk[t] EXCEPT !.pc = "get_cpu", !.mem = avail,
                                           !.allocs = @ + 1, !.bufst = "alloc",
                                           !.bufid = Len(heap) + 1,
                                           !.buf = [k \in 0 .. (size - 1) |-> Indet]])
                   /\ heap' = Append(heap, 0)
    /\ UNCHANGED <<hostLE, percpu, pinned, nTrans, ncalls>>
    /\ UNCHANGED modvars

\* xp = get_cpu_ptr(spl_pseudo_entropy), on whichever CPU the task runs
PocReadGetCpu(t) ==
    /\ tk[t].pc = "get_cpu"
    /\ \E c \in CPU :
          /\ CanRunOn(t, c)
          /\ pinned' = get_cpu_ptr(pinned, t, c)
          /\ Upd(t, [tk[t] EXCEPT !.pc = "gen", !.cpu = c, !.i = 0, !.st0 = percpu[c]])
    /\ UNCHANGED <<hostLE, heap, percpu, nTrans, ncalls>>
    /\ UNCHANGED modvars

\* one iteration of for (i = 0; i < len; i += sizeof (uint64_t))
PocReadGen(t) ==
    /\ tk[t].pc = "gen"
    /\ tk[t].i < tk[t].len
    /\ CanRunOn(t, tk[t].cpu)
    /\ LET c == tk[t].cpu
           g == GenBody(percpu[c], tk[t].buf, tk[t].i, hostLE)
       IN  /\ percpu' = [percpu EXCEPT ![c] = g.xp]
           /\ nTrans' = [nTrans EXCEPT ![c] = @ + 1]
           /\ Upd(t, [tk[t] EXCEPT !.buf = g.buf, !.i = @ + SizeofU64, !.gen = @ + 1])
    /\ UNCHANGED <<hostLE, heap, pinned, ncalls>>
    /\ UNCHANGED modvars

\* the loop ends: put_cpu_ptr(spl_pseudo_entropy); prim is how copy_to_user
\* is going to behave for this call
PocReadPutCpu(t) ==
    /\ tk[t].pc = "gen"
    /\ ~(tk[t].i < tk[t].len)
    /\ CanRunOn(t, tk[t].cpu)
    /\ pinned' = put_cpu_ptr(pinned, tk[t].cpu)
    /\ \E prim \in Prims : Upd(t, [tk[t] EXCEPT !.pc = "copy", !.prim = prim])
    /\ UNCHANGED <<hostLE, heap, percpu, nTrans, ncalls>>
    /\ UNCHANGED modvars

\* one iteration of while (left != 0): copy_to_user transfers m bytes and
\* returns the number it did not transfer
PocReadCopy(t) ==
    /\ tk[t].pc = "copy"
    /\ tk[t].left # 0
    /\ LET a == CopyArgs(tk[t])
       IN  \E m \in Transfers(tk[t].prim, a.n) :
              LET left == a.n - m
              IN  Upd(t, [tk[t] EXCEPT
                             !.ubuf = CopyToUser(tk[t].ubuf, tk[t].buf, a.to, a.from, m),
                             !.left = left,
                             !.copied = tk[t].len - left,
                             !.tries = 1 - @])
    /\ UNCHANGED <<hostLE, heap, percpu, pinned, nTrans, ncalls>>
    /\ UNCHANGED modvars

\* the loop ends: vfree(buf); return (len)
PocReadFree(t) ==
    /\ tk[t].pc = "copy"
    /\ tk[t].left = 0
    /\ heap' = vfree(heap, tk[t].bufid)
    /\ Upd(t, [tk[t] EXCEPT !.pc = "ret", !.bufst = "freed", !.frees = @ + 1,
                            !.ret = tk[t].len])
    /\ UNCHANGED <<hostLE, percpu, pinned, nTrans, ncalls>>
    /\ UNCHANGED modvars

\* the caller has its result and leaves the module
TaskReturn(t) ==
    /\ tk[t].pc = "ret"
    /\ Upd(t, IdleTask)
    /\ UNCHANGED <<hostLE, heap, percpu, pinned, nTrans, ncalls>>
    /\ UNCHANGED modvars

\* ------------------------------------------------------------------------
\* random_get_pseudo_bytes
\* ------------------------------------------------------------------------
\* FillBody that calls spl_rand_next on a copy of s: s itself is not advanced
FillBodyStale(l, le) ==
    [s    |-> l.s,
     len  |-> l.len - MIN(l.len, SizeofU64),
     ptr  |-> l.ptr + MIN(l.len, SizeofU64),
     dest |-> Store(l.dest, l.ptr .. (l.ptr + MIN(l.len, SizeofU64) - 1),
                    [k \in l.ptr .. (l.ptr + MIN(l.len, SizeofU64) - 1) |->
                        MemByte(spl_rand_next(l.s),
                                (MIN(l.len, SizeofU64) - 1) - (k - l.ptr), le)])]

\* one iteration of while (len) on the locals l = (s, len, ptr) and the
\* destination memory: i = MIN(len, 8); len -= i; entropy.ui64 =
\* spl_rand_next(s); while (i--) *ptr++ = entropy.byte[i]
FillBody(l, le) ==
    LET i == MIN(l.len, SizeofU64)
        w == spl_rand_next(l.s)
    IN  [s    |-> spl_rand_next_s(l.s),
         len  |-> l.len - i,
         ptr  |-> l.ptr + i,
         dest |-> Store(l.dest, l.ptr .. (l.ptr + i - 1),
                        [k \in l.ptr .. (l.ptr + i - 1) |->
                            MemByte(w, (i - 1) - (k - l.ptr), le)])]

\* the whole loop while (len)
RECURSIVE FillLoop(_, _)
FillLoop(l, le) == IF l.len = 0 THEN l ELSE FillLoop(FillBody(l, le), le)

\* the destination memory after random_get_pseudo_bytes(ptr, len) run from the state st
FillBytes(st, len, le) ==
    FillLoop([s |-> st, len |-> len, ptr |-> 0, dest |-> <<>>], le).dest

\* a task calls random_get_pseudo_bytes(ptr, len): xp = get_cpu_ptr(spl_pseudo_entropy)
FillEnter(t) ==
    /\ ipc = "live"
    /\ tk[t].pc = "idle"
    /\ \E len \in Lens, c \in CPU :
          /\ CanCall(t, len)
          /\ CanRunOn(t, c)
          /\ ncalls' = ncalls + 1
          /\ pinned' = get_cpu_ptr(pinned, t, c)
          /\ Upd(t, [tk[t] EXCEPT !.pc = "f_load", !.op = "fill", !.req = len,
                                  !.len = len, !.cpu = c, !.st0 = percpu[c], !.ptr = 0])
    /\ UNCHANGED <<hostLE, heap, percpu, nTrans>>
    /\ UNCHANGED modvars

\* s[0] = xp[0]; s[1] = xp[1]
FillLoad(t) ==
    /\ tk[t].pc = "f_load"
    /\ CanRunOn(t, tk[t].cpu)
    /\ Upd(t, [tk[t] EXCEPT !.pc = "f_loop", !.s = percpu[tk[t].cpu]])
    /\ UNCHANGED <<hostLE, heap, percpu, pinned, nTrans, ncalls>>
    /\ UNCHANGED modvars

\* one iteration of while (len)
FillStep(t) ==
    /\ tk[t].pc = "f_loop"
    /\ tk[t].len # 0
    /\ CanRunOn(t, tk[t].cpu)
    /\ LET l == FillBody([s |-> tk[t].s, len |-> tk[t].len, ptr |-> tk[t].ptr,
                          dest |-> tk[t].dest], hostLE)
       IN  Upd(t, [tk[t] EXCEPT !.s = l.s, !.len = l.len, !.ptr = l.ptr,
                               !.dest = l.dest, !.gen = @ + 1])
    /\ nTrans' = [nTrans EXCEPT ![tk[t].cpu] = @ + 1]
    /\ UNCHANGED <<hostLE, heap, percpu, pinned, ncalls>>
    /\ UNCHANGED modvars

\* the loop ends: xp[0] = s[0]; xp[1] = s[1]
FillStore(t) ==
    /\ tk[t].pc = "f_loop"
    /\ tk[t].len = 0
    /\ CanRunOn(t, tk[t].cpu)
    /\ percpu' = [percpu EXCEPT ![tk[t].cpu] = tk[t].s]
    /\ Upd(t, [tk[t] EXCEPT !.pc = "f_put"])
    /\ UNCHANGED <<hostLE, heap, pinned, nTrans, ncalls>>
    /\ UNCHANGED modvars

\* put_cpu_ptr(spl_pseudo_entropy); return (0)
FillPut(t) ==
    /\ tk[t].pc = "f_put"
    /\ CanRunOn(t, tk[t].cpu)
    /\ pinned' = put_cpu_ptr(pinned, tk[t].cpu)
    /\ Upd(t, [tk[t] EXCEPT !.pc = "ret", !.ret = 0])
    /\ UNCHANGED <<hostLE, heap, percpu, nTrans, ncalls>>
    /\ UNCHANGED modvars

\* ------------------------------------------------------------------------
\* The system
\* ------------------------------------------------------------------------
\* a step of a task that has reached the copy loop of poc_read
CopyPhase(t) ==
    \/ PocReadCopy(t)
    \/ PocReadFree(t)

\* a step of a task inside a call
TaskStep(t) ==
    \/ PocReadAlloc(t)
    \/ PocReadGetCpu(t)
    \/ PocReadGen(t)
    \/ PocReadPutCpu(t)
    \/ PocReadCopy(t)
    \/ PocReadFree(t)
    \/ FillLoad(t)
    \/ FillStep(t)
    \/ FillStore(t)
    \/ FillPut(t)
    \/ TaskReturn(t)

Next ==
    \/ InitAlloc
    \/ InitSeed
    \/ InitLoop
    \/ InitDone
    \/ InitRegister
    \/ CleanupDeregister
    \/ CleanupFini
    \/ \E t \in Task : PocReadEnter(t)
    \/ \E t \in Task : FillEnter(t)
    \/ \E t \in Task : TaskStep(t)

Spec == Init /\ [][Next]_vars

\* a task in the copy loop of poc_read keeps running: nothing in the loop
\* blocks it or waits for another task
FairSpec == Spec /\ \A t \in Task : WF_vars(CopyPhase(t))

\* ------------------------------------------------------------------------
\* Properties
\* ------------------------------------------------------------------------
\* the task t is in poc_read and has just returned
ReadReturned(t) == tk[t].op = "read" /\ tk[t].pc = "ret"

\* the client buffer of t holds exactly the first req bytes of the scratch buffer
Delivered(t) ==
    /\ DOMAIN tk[t].ubuf = 0 .. (tk[t].req - 1)
    /\ \A k \in 0 .. (tk[t].req - 1) : tk[t].ubuf[k] = tk[t].buf[k]

\* C1: with a copy_to_user that transfers one byte per call, a poc_read that
\* has reached its copy loop (accessible destination, scratch allocated,
\* length >= 1) eventually returns, with its length as result and all its
\* bytes delivered to the client.
C1_OneBytePerCallTerminates ==
    \A t \in Task :
        (tk[t].pc = "copy" /\ tk[t].prim = "one")
            ~> (ReadReturned(t) /\ tk[t].ret = tk[t].req /\ Delivered(t))

\* C2: at every call poc_read makes to copy_to_user, the offset already
\* delivered plus the byte count requested is at most the length, so that the
\* call reads nothing beyond the scratch buffer and writes nothing outside
\* client_buffer[0, length).
C2_CopyCoversRemainingRange ==
    \A t \in Task :
        /\ (tk[t].pc = "copy" /\ tk[t].left # 0) =>
              LET a == CopyArgs(tk[t])
              IN  /\ a.to + a.n <= tk[t].req
                  /\ a.from + a.n <= P2ROUNDUP(tk[t].req, SizeofU64)
        /\ tk[t].op = "read" =>
              /\ DOMAIN tk[t].ubuf \subseteq 0 .. (tk[t].req - 1)
              /\ \A k \in DOMAIN tk[t].ubuf : tk[t].ubuf[k] # OutOfBounds

\* C3: a poc_read of any length, 0 included, whose destination is accessible,
\* for which memory is available and whose copy_to_user transfers everything
\* in one call, returns its length with exactly that many bytes delivered.
C3_FullCopyReturnsLength ==
    \A t \in Task :
        (/\ ReadReturned(t)
         /\ tk[t].ok
         /\ tk[t].mem
         /\ tk[t].prim \in {"none", "full"})
            => (tk[t].ret = tk[t].req /\ Delivered(t))

\* C4: once poc_read has filled its scratch buffer, the first length bytes of
\* the buffer are the bytes random_get_pseudo_bytes writes for the same length
\* from the unit state poc_read started from.
C4_ScratchIsFillOutput ==
    \A t \in Task :
        (tk[t].op = "read" /\ tk[t].pc = "copy") =>
            LET f == FillBytes(tk[t].st0, tk[t].req, hostLE)
            IN  \A k \in 0 .. (tk[t].req - 1) : tk[t].buf[k] = f[k]

\* C5: a poc_read that fails has done no work. An inaccessible destination
\* gives -EFAULT with no allocation attempted, a failed allocation gives
\* -ENOMEM, nothing else fails, and in both cases the call checked out no unit
\* state and made no spl_rand_next call, wrote no byte of the client buffer
\* and holds no scratch buffer.
C5_FailsBeforeAnyWork ==
    \A t \in Task :
        ReadReturned(t) =>
            /\ ~tk[t].ok => (tk[t].ret = -EFAULT /\ tk[t].allocs = 0)
            /\ (tk[t].ok /\ tk[t].allocs = 1 /\ tk[t].bufst = "none") => tk[t].ret = -ENOMEM
            /\ tk[t].ret < 0 =>
                  /\ ~tk[t].ok \/ (tk[t].allocs = 1 /\ tk[t].bufst = "none")
                  /\ tk[t].cpu = -1
                  /\ tk[t].gen = 0
                  /\ tk[t].ubuf = <<>>
                  /\ tk[t].bufst # "alloc"
                  /\ tk[t].frees = 0

\* both failures, seen at once on two tasks: one refused for its destination,
\* one for lack of memory
C5_Witness ==
    \E t, u \in Task :
        /\ ReadReturned(t) /\ tk[t].ret = -EFAULT
        /\ ReadReturned(u) /\ tk[u].ret = -ENOMEM /\ ~tk[u].mem

\* the task t is between get_cpu_ptr and put_cpu_ptr
Holding(t) == tk[t].pc \in {"gen", "f_load", "f_loop", "f_put"}

\* seeding is complete and the per-cpu area exists
Seeded == ipc \in {"seeded", "live", "dereg"} /\ areaState = "live"

\* the StreamState of unit c: its registry entry, or, while a
\* random_get_pseudo_bytes running on c works on its copy s of the entry, that copy
UnitState(c) ==
    IF \E t \in Task : tk[t].pc = "f_loop" /\ tk[t].cpu = c
    THEN tk[CHOOSE t \in Task : tk[t].pc = "f_loop" /\ tk[t].cpu = c].s
    ELSE percpu[c]

\* C6: single writer per entry. A caller between get_cpu_ptr and put_cpu_ptr
\* is the task pinned to the unit whose entry it has, no two callers have the
\* same entry at once, and no update is lost: the state of every unit is its
\* seed advanced by exactly the number of spl_rand_next calls made on that
\* unit; when nobody has the entry this is the registry entry itself.
C6_SingleWriterNoLostUpdate ==
    Seeded =>
        /\ \A t \in Task : Holding(t) => pinned[tk[t].cpu] = t
        /\ \A t, u \in Task : (t # u /\ Holding(t) /\ Holding(u)) => tk[t].cpu # tk[u].cpu
        /\ \A c \in CPU : UnitState(c) = NextN(seed[c], nTrans[c])
        /\ \A c \in CPU : pinned[c] = 0 => percpu[c] = NextN(seed[c], nTrans[c])

\* two callers hold the entries of two units at once, each has made a
\* spl_rand_next call, and one of them is a random_get_pseudo_bytes whose
\* result is not yet written back
C6_Witness ==
    \E t, u \in Task :
        /\ t # u
        /\ Holding(t) /\ Holding(u)
        /\ tk[t].gen > 0 /\ tk[u].gen > 0
        /\ tk[t].pc = "f_loop"

\* C7: random_get_pseudo_bytes(ptr, len) never writes outside ptr[0, len) and
\* has written exactly len bytes when it returns: the 8 bytes of every full
\* output word most significant first, and of the last word, when len is not
\* a multiple of 8, its len % 8 least significant bytes, most significant first.
C7_FillWritesLengthBytesMsbFirst ==
    \A t \in Task :
        tk[t].op = "fill" =>
            /\ DOMAIN tk[t].dest \subseteq 0 .. (tk[t].req - 1)
            /\ tk[t].pc = "ret" =>
                  /\ DOMAIN tk[t].dest = 0 .. (tk[t].req - 1)
                  /\ \A k \in 0 .. (tk[t].req - 1) :
                        LET g == k \div SizeofU64
                            n == MIN(SizeofU64, tk[t].req - SizeofU64 * g)
                            w == spl_rand_next(NextN(tk[t].st0, g))
                        IN  tk[t].dest[k] = ByteVal(w, (n - 1) - (k % SizeofU64))

\* s, next(s), .., next^(n-1)(s) as a sequence, n >= 1
RECURSIVE Orbit(_, _)
Orbit(st, n) ==
    IF n = 1 THEN <<st>>
    ELSE LET h == n \div 2
             a == Orbit(st, h)
         IN  a \o Orbit(spl_rand_next_s(a[h]), n - h)

\* the jump in closed form: the xor of the states next^n(s) over the set
\* bits n of the 128-bit jump polynomial JUMP[1] : JUMP[0]
JumpRef(st) ==
    LET o   == Orbit(st, 2 * WordBits)
        sel == {n \in 0 .. (2 * WordBits - 1) : (n % WordBits) \in JUMP[n \div WordBits]}
    IN  Pair({k \in Bit : Cardinality({n \in sel : k \in o[n + 1][0]}) % 2 = 1},
             {k \in Bit : Cardinality({n \in sel : k \in o[n + 1][1]}) % 2 = 1})

RECURSIVE JumpRefN(_, _)
JumpRefN(st, n) == IF n = 0 THEN st ELSE JumpRef(JumpRefN(st, n - 1))

\* C8: when spl_random_init has succeeded, the entry of unit i is the root
\* seed advanced by exactly i + 1 jumps, each jump being the xor of the
\* running state over the set bits of the jump polynomial.
C8_SeedsAreCumulativeJumps ==
    ipc = "seeded" =>
        /\ initRet = 0
        /\ \A i \in CPU : percpu[i] = JumpRefN(rootSeed, i + 1)

\* spl_random_init has returned 0 and the units have pairwise different
\* entries, none of them the root seed
C8_Witness ==
    /\ ipc = "seeded"
    /\ initRet = 0
    /\ \A i \in CPU : percpu[i] # rootSeed
    /\ \A i, j \in CPU : i # j => percpu[i] # percpu[j]

\* spl_random_init is past its zero-seed test
SeedChosen == ipc \notin {"insmod", "seed"} /\ areaState # "none"

C10_NoZeroState ==
    Seeded =>
        /\ \A c \in CPU : percpu[c] # ZeroPair
        /\ \A t \in Task : tk[t].pc \in {"f_loop", "f_put"} => tk[t].s # ZeroPair

\* seeded through a fallback, and both poc_read and random_get_pseudo_bytes
\* have advanced the state of a unit
C10_Witness ==
    /\ Seeded
    /\ diag
    /\ \E c \in CPU : nTrans[c] >= 2
    /\ \E t, u \in Task :
          /\ tk[t].op = "read" /\ tk[t].gen > 0
          /\ tk[u].op = "fill" /\ tk[u].gen > 0

\* C11: with a copy_to_user that never transfers a byte, a poc_read that has
\* reached its copy loop still eventually returns: the loop gives up when no
\* progress is possible.
C11_NoProgressCopyReturns ==
    \A t \in Task :
        (tk[t].pc = "copy" /\ tk[t].prim = "zero") ~> ReadReturned(t)

\* the scratch buffers that are allocated and not freed
LiveScratch == {id \in DOMAIN heap : heap[id] = 0}

\* C12: a poc_read that allocated a scratch buffer has freed it exactly once
\* when it returns, whatever copy_to_user did; no scratch buffer is ever freed
\* twice, the buffers still allocated are those of the calls in progress, and
\* when every call has returned none is allocated.
C12_ScratchFreedExactlyOnce ==
    /\ \A id \in DOMAIN heap : heap[id] <= 1
    /\ LiveScratch = {tk[t].bufid : t \in {u \in Task : tk[u].bufst = "alloc"}}
    /\ \A t \in Task :
          (ReadReturned(t) /\ tk[t].bufid # 0) =>
              (heap[tk[t].bufid] = 1 /\ tk[t].frees = 1 /\ tk[t].bufst = "freed")
    /\ (\A t \in Task : tk[t].pc = "idle") => LiveScratch = {}

\* two reads have allocated and returned, one of them after a partial
\* transfer and a retry, and every task is outside the module again
C12_Witness ==
    /\ Len(heap) = 2
    /\ \A t \in Task : tk[t].pc \in {"idle", "ret"}
    /\ \E t \in Task : ReadReturned(t) /\ tk[t].prim = "any" /\ tk[t].tries = 0 /\ tk[t].req > 1

\* C13: init failure handling. When __alloc_percpu fails, spl_random_init
\* returns -ENOMEM with no entry seeded, and init_module returns that error
\* with the endpoint unregistered; when misc_register fails after allocation
\* and seeding, the per-cpu area is freed exactly once and init_module returns
\* the error; the area is never freed twice, and never left allocated once
\* init_module has failed or cleanup_module has run.
C13_InitFailureHandling ==
    /\ (ipc = "failed" /\ initRet # 0) =>
          /\ initRet = -ENOMEM
          /\ error = initRet
          /\ ~registered
          /\ areaState = "none" /\ areaFrees = 0
          /\ icpu = 0 /\ rootSeed = ZeroPair
          /\ \A c \in CPU : seed[c] = ZeroPair /\ percpu[c] = ZeroPair
    /\ (ipc = "failed" /\ initRet = 0) =>
          /\ error \in RegisterErrors
          /\ ~registered
          /\ icpu = NCPU
          /\ areaState = "freed" /\ areaFrees = 1
    /\ areaFrees <= 1
    /\ areaState = "freed" <=> areaFrees = 1
    /\ ipc \in {"failed", "gone"} => areaState # "live"
    /\ ipc = "gone" => areaFrees = 1

\* misc_register has failed with -EBUSY after the entries were seeded
C13_Witness ==
    /\ ipc = "failed"
    /\ error = -EBUSY
    /\ areaFrees = 1
    /\ \A c \in CPU : seed[c] # ZeroPair

\* the task t is inside poc_read
InRead(t) == tk[t].op = "read" /\ tk[t].pc # "idle"

\* C14: whenever the read endpoint is registered, and whenever a poc_read is
\* in progress, the per-cpu area is allocated and every entry of it has been
\* seeded: init_module registers the endpoint last, cleanup_module
\* deregisters it first.
C14_RegisteredImpliesSeeded ==
    (registered \/ \E t \in Task : InRead(t)) =>
        /\ areaState = "live"
        /\ initRet = 0
        /\ icpu = NCPU
        /\ ipc = "live"
        /\ \A c \in CPU : seed[c] # ZeroPair /\ percpu[c] # ZeroPair

\* the endpoint is registered and a poc_read is generating from a seeded entry
C14_Witness ==
    /\ registered
    /\ \E t \in Task : InRead(t) /\ tk[t].pc = "gen" /\ tk[t].gen > 0

\* the task t is in the copy loop of poc_read
InCopyPhase(t) == tk[t].op = "read" /\ tk[t].pc = "copy"

\* C15: poc_read holds its checkout only around the generation loop. From
\* its first copy_to_user call on it holds no entry, and no step of its copy
\* loop (a copy_to_user call, a retry, the end of the loop) changes a
\* registry entry, a checkout or the number of spl_rand_next calls made.
C15_CopyOutsideCheckout ==
    /\ [](\A t \in Task : InCopyPhase(t) => \A c \in CPU : pinned[c] # t)
    /\ [][\A t \in Task :
              (InCopyPhase(t) /\ tk'[t] # tk[t]) =>
                  (percpu' = percpu /\ pinned' = pinned /\ nTrans' = nTrans)]_vars

\* a poc_read is retrying its copy after a call that did not transfer
\* everything, while another task holds the entry of the unit the read
\* generated on
C15_Witness ==
    \E t, u \in Task :
        /\ InCopyPhase(t) /\ tk[t].tries = 1 /\ tk[t].left # 0
        /\ u # t /\ Holding(u) /\ tk[u].cpu = tk[t].cpu

\* the number of 8-byte words n bytes take: ceil(n / 8)
Ceil8(n) == (n + SizeofU64 - 1) \div SizeofU64

\* C16: a poc_read or a random_get_pseudo_bytes of length bytes advances the
\* entry of the unit it runs on by exactly ceil(length / 8) spl_rand_next
\* calls (none for length 0) and changes no other entry; and a
\* random_get_pseudo_bytes of a bytes, a a multiple of 8, followed on the same
\* unit by one of b bytes, writes the bytes and leaves the state that one of
\* a + b bytes does.
C16_AdvancesByCeilLengthOver8 ==
    /\ [](\A t \in Task :
            /\ (InRead(t) /\ tk[t].pc = "gen" /\ ~(tk[t].i < tk[t].len)) =>
                  /\ tk[t].gen = Ceil8(tk[t].req)
                  /\ percpu[tk[t].cpu] = NextN(tk[t].st0, Ceil8(tk[t].req))
            /\ (InRead(t) /\ tk[t].pc = "copy") => tk[t].gen = Ceil8(tk[t].req)
            /\ (ReadReturned(t) /\ tk[t].ret >= 0) => tk[t].gen = Ceil8(tk[t].req)
            /\ (tk[t].op = "fill" /\ tk[t].pc = "ret") => tk[t].gen = Ceil8(tk[t].req)
            /\ tk[t].pc = "f_put" =>
                  /\ tk[t].gen = Ceil8(tk[t].req)
                  /\ percpu[tk[t].cpu] = NextN(tk[t].st0, Ceil8(tk[t].req))
                  /\ tk[t].req % SizeofU64 = 0 =>
                        \A b \in Lens :
                            LET two == FillLoop([s |-> percpu[tk[t].cpu], len |-> b,
                                                 ptr |-> tk[t].req, dest |-> tk[t].dest],
                                                hostLE)
                                one == FillLoop([s |-> tk[t].st0, len |-> tk[t].req + b,
                                                 ptr |-> 0, dest |-> <<>>], hostLE)
                            IN  two.dest = one.dest /\ two.s = one.s)
    /\ [][\A t \in Task :
              (tk[t].pc # "idle" /\ tk'[t] # tk[t]) =>
                  \A c \in CPU : percpu'[c] # percpu[c] => c = tk[t].cpu]_vars

\* a random_get_pseudo_bytes of 8 bytes has written its state back to an
\* entry that an earlier call of 9 bytes had advanced by two steps
C16_Witness ==
    \E t \in Task :
        /\ tk[t].pc = "f_put"
        /\ tk[t].req = SizeofU64
        /\ nTrans[tk[t].cpu] = 3
        /\ percpu[tk[t].cpu] # tk[t].st0

====
